---- MODULE Spec2Model ----
(***************************************************************************)
(* Sentence segmentation as exercised by the Sentence-Segmentation         *)
(* notebook: the nlp pipeline, the custom boundary component               *)
(* set_custom_boundaries, the newline strategy split_on_newlines and the   *)
(* sentences read back from a Doc.                                         *)
(* Word vectors as exercised by the vectors notebook: cosine_similarity,   *)
(* the target king - man + woman, and the growth of nlp.vocab on lookup.   *)
(* Doc.vector, the analogy scan over nlp.vocab and its ranking, and the    *)
(* stop-word set with the lexemes' is_stop flags of the Stop-Words         *)
(* notebook.                                                               *)
(*                                                                         *)
(* A token text is a sequence of one-character strings.  A Doc is a        *)
(* function from the Python indices 0..n-1 to token texts.  A Span is a    *)
(* pair <<start, end>> of Python indices, half open.                       *)
(***************************************************************************)
EXTENDS Integers, Sequences, FiniteSets, TLC

VARIABLES
    doc_text,       \* the tokenizer's output for the input string of the session
    pipe_names,     \* nlp.pipe_names: the components of the pipeline, in order
    tokens,         \* the token texts of the current Doc
    is_sent_start,  \* token.is_sent_start of every token of the current Doc
    applied,        \* the components that have run on the current Doc, in order
    pc,             \* "idle", or "pipe" while nlp(text) runs its components
    user_hook,      \* the Doc's sents hook was installed by sbd
    accessed,       \* the indices set_custom_boundaries wrote on the current Doc
    err,            \* "none", or the exception that ended the last nlp(text)
    sents_listed,   \* list(doc.sents) has been evaluated on the current Doc
    sents,          \* the Spans it returned
    write_result,   \* outcome of the last doc[i].is_sent_start = ... on the Doc
    vectors,        \* nlp.vocab.vectors: the pretrained table, key -> vector
    lexemes,        \* nlp.vocab: the lexemes it holds, in order of insertion
    lex,            \* what the last nlp.vocab[word] lookup returned
    vec_x,          \* first argument of the similarity calls
    vec_y,          \* second argument of the similarity calls
    sim_xy,         \* outcome of cosine_similarity(vec_x, vec_y)
    sim_yx,         \* outcome of cosine_similarity(vec_y, vec_x)
    text_words,     \* the token texts of the Doc whose vector is read
    doc_vec,        \* outcome of doc.vector
    scan_i,         \* how many entries of nlp.vocab the scan has visited
    computed_similarities,   \* the (word, similarity) pairs appended so far
    computed_similarities1,  \* sorted(computed_similarities, ...), once made
    stop_words,     \* nlp.Defaults.stop_words
    stop_flags,     \* is_stop of every lexeme of the vocabulary
    stop_pc,        \* "idle", or the flag write that the running cell owes
    stop_word,      \* the word the last add or remove cell names
    stop_err        \* "none", or the exception that ended the last cell

seg_vars == <<doc_text, pipe_names, tokens, is_sent_start, applied, pc,
              user_hook, accessed, err, sents_listed, sents, write_result>>

vocab_vars == <<vectors, lexemes, lex>>

sim_vars == <<vec_x, vec_y, sim_xy, sim_yx>>

mean_vars == <<text_words, doc_vec>>

scan_vars == <<scan_i, computed_similarities, computed_similarities1>>

stop_vars == <<stop_words, stop_flags, stop_pc, stop_word, stop_err>>

rest_vars == <<mean_vars, scan_vars, stop_vars>>

vars == <<seg_vars, vocab_vars, sim_vars, rest_vars>>

----------------------------------------------------------------------------
(* Bounds *)

MaxLen == 4
MaxRuleLen == 3
MaxRules == 2

----------------------------------------------------------------------------
(* Token texts *)

NL == "\n"

Texts == { <<"a">>, <<";">>, <<".">>, <<NL>>, <<NL, NL>>, <<"a", NL>> }

W_This == <<"T", "h", "i", "s">>
W_is == <<"i", "s">>
W_a == <<"a">>
W_sentence == <<"s", "e", "n", "t", "e", "n", "c", "e">>
W_another == <<"a", "n", "o", "t", "h", "e", "r">>
W_third == <<"t", "h", "i", "r", "d">>
W_dot == <<".">>
W_semi == <<";">>
W_A == <<"A">>
W_B == <<"B">>

\* A Doc from a 1-based sequence of token texts.
MakeDoc(s) == [i \in 0..(Len(s) - 1) |-> s[i + 1]]

DocLen(doc) == Cardinality(DOMAIN doc)

mystring_tokens ==
    MakeDoc(<< W_This, W_is, W_a, W_sentence, W_dot,
               W_This, W_is, W_another, W_dot, <<NL, NL>>,
               W_This, W_is, W_a, <<NL>>, W_third, W_sentence, W_dot >>)

third_tokens ==
    MakeDoc(<< W_This, W_is, W_a, <<NL>>, W_third, W_sentence, W_dot >>)

semicolon_tokens == MakeDoc(<< W_A, W_semi, W_B, W_dot >>)

\* u'This is a sentence. This is another.'
two_sentence_tokens ==
    MakeDoc(<< W_This, W_is, W_a, W_sentence, W_dot,
               W_This, W_is, W_another, W_dot >>)

\* doc2 = nlp(u'This is a sentence. This is a sentence. This is a sentence.')
doc2_tokens ==
    MakeDoc(<< W_This, W_is, W_a, W_sentence, W_dot,
               W_This, W_is, W_a, W_sentence, W_dot,
               W_This, W_is, W_a, W_sentence, W_dot >>)

DocsUpTo(n) == UNION { [0..(k - 1) -> Texts] : k \in 0..n }

Docs ==
    DocsUpTo(MaxLen) \cup {mystring_tokens, third_tokens, semicolon_tokens,
                           two_sentence_tokens, doc2_tokens}

----------------------------------------------------------------------------
(* str.startswith *)

startswith(text, prefix) ==
    /\ Len(text) >= Len(prefix)
    /\ SubSeq(text, 1, Len(prefix)) = prefix

----------------------------------------------------------------------------
(* The custom boundary component *)

NoFlags(doc) == [i \in DOMAIN doc |-> FALSE]

\* doc[:-1] covers the indices 0 .. slice_to_last(doc) - 1.
slice_to_last(doc) == IF DocLen(doc) = 0 THEN 0 ELSE DocLen(doc) - 1

\* doc[j].is_sent_start = True; doc[j] raises IndexError past the end.
write_sent_start(st, doc, j) ==
    IF j \in DOMAIN doc
    THEN [st EXCEPT !.flags = [st.flags EXCEPT ![j] = TRUE],
                    !.accessed = st.accessed \cup {j}]
    ELSE [st EXCEPT !.err = "IndexError"]

\* for token in <indices i .. stop-1>: if token.text == ';': write token.i+offset
RECURSIVE boundaries_loop(_, _, _, _, _)
boundaries_loop(doc, st, i, stop, offset) ==
    IF i >= stop \/ st.err # "none" THEN st
    ELSE IF doc[i] = W_semi
         THEN boundaries_loop(doc, write_sent_start(st, doc, i + offset),
                              i + 1, stop, offset)
         ELSE boundaries_loop(doc, st, i + 1, stop, offset)

BoundaryState(flags) == [flags |-> flags, accessed |-> {}, err |-> "none"]

\* Mutation: iterates the whole doc instead of doc[:-1].
set_custom_boundaries_whole_doc(doc, flags) ==
    boundaries_loop(doc, BoundaryState(flags), 0, DocLen(doc), 1)

\* Mutation: flags the ';' token itself instead of the token after it.
set_custom_boundaries_same_token(doc, flags) ==
    boundaries_loop(doc, BoundaryState(flags), 0, slice_to_last(doc), 0)

\* Mutation: assigns every flag, clearing those not following a ';'.
set_custom_boundaries_assign(doc, flags) ==
    [flags |-> [j \in DOMAIN doc |-> j > 0 /\ doc[j - 1] = W_semi],
     accessed |-> DOMAIN doc \ {0},
     err |-> "none"]

\* Mutation: the flag of the token after a ';' is inverted.
set_custom_boundaries_toggle(doc, flags) ==
    [flags |-> [j \in DOMAIN doc |->
                   IF j > 0 /\ doc[j - 1] = W_semi THEN ~flags[j] ELSE flags[j]],
     accessed |-> { j \in DOMAIN doc : j > 0 /\ doc[j - 1] = W_semi },
     err |-> "none"]

set_custom_boundaries(doc, flags) ==
    boundaries_loop(doc, BoundaryState(flags), 0, slice_to_last(doc), 1)

----------------------------------------------------------------------------
(* The default punctuation rule of the parser *)

EndPunct == { <<".">>, <<"!">>, <<"?">> }

Whitespace == { " ", NL, "\t", "\r" }

whitespace_only(text) == \A k \in 1..Len(text) : text[k] \in Whitespace

\* The token that ends the sentence before token i: end punctuation with
\* nothing but whitespace tokens between it and token i.
follows_end_punct(doc, i) ==
    \E j \in DOMAIN doc :
        /\ j < i
        /\ doc[j] \in EndPunct
        /\ \A k \in (j + 1)..(i - 1) : whitespace_only(doc[k])

\* Mutation: only the token immediately before is looked at.
parser_immediate(doc, flags) ==
    [i \in DOMAIN doc |->
        \/ flags[i]
        \/ i = 0
        \/ i > 0 /\ doc[i - 1] \in EndPunct /\ ~whitespace_only(doc[i])]

\* Mutation: a whitespace token can start a sentence.
parser_whitespace_starts(doc, flags) ==
    [i \in DOMAIN doc |->
        \/ flags[i]
        \/ i = 0
        \/ follows_end_punct(doc, i)]

\* The sentence starts the parser sets, as the notebook prints them for
\* word, end-punctuation and whitespace tokens; flags set by an earlier
\* component are kept.
parser(doc, flags) ==
    [i \in DOMAIN doc |->
        \/ flags[i]
        \/ i = 0
        \/ ~whitespace_only(doc[i]) /\ follows_end_punct(doc, i)]

----------------------------------------------------------------------------
(* The newline strategy *)

\* word.text.startswith('\n')
starts_with_newline_eq(text) == text = <<NL>>

starts_with_newline_in(text) == \E k \in 1..Len(text) : text[k] = NL

starts_with_newline(text) == startswith(text, <<NL>>)

\* yield doc[start:]
yield_last_missing(out, doc, start) == out

yield_last(out, doc, start) == Append(out, <<start, DocLen(doc)>>)

RECURSIVE newlines_loop(_, _, _, _, _)
newlines_loop(doc, i, start, seen_newline, out) ==
    IF i >= DocLen(doc) THEN yield_last(out, doc, start)
    ELSE IF seen_newline
         THEN newlines_loop(doc, i + 1, i, FALSE, Append(out, <<start, i>>))
         ELSE IF starts_with_newline(doc[i])
              THEN newlines_loop(doc, i + 1, start, TRUE, out)
              ELSE newlines_loop(doc, i + 1, start, FALSE, out)

\* Mutation: yields at the newline token itself, so a trailing newline
\* leaves an empty last group.
RECURSIVE newlines_loop_eager(_, _, _, _)
newlines_loop_eager(doc, i, start, out) ==
    IF i >= DocLen(doc) THEN Append(out, <<start, DocLen(doc)>>)
    ELSE IF starts_with_newline(doc[i])
         THEN newlines_loop_eager(doc, i + 1, i + 1, Append(out, <<start, i + 1>>))
         ELSE newlines_loop_eager(doc, i + 1, start, out)

split_on_newlines_eager(doc) == newlines_loop_eager(doc, 0, 0, <<>>)

split_on_newlines(doc) == newlines_loop(doc, 0, 0, FALSE, <<>>)

----------------------------------------------------------------------------
(* doc.sents *)

RECURSIVE flags_loop(_, _, _, _, _)
flags_loop(doc, flags, i, start, out) ==
    IF i >= DocLen(doc) THEN Append(out, <<start, DocLen(doc)>>)
    ELSE IF flags[i]
         THEN flags_loop(doc, flags, i + 1, i, Append(out, <<start, i>>))
         ELSE flags_loop(doc, flags, i + 1, start, out)

sents_from_flags(doc, flags) ==
    IF DocLen(doc) = 0 THEN <<>> ELSE flags_loop(doc, flags, 1, 0, <<>>)

doc_sents(doc, flags, hook) ==
    IF hook THEN split_on_newlines(doc) ELSE sents_from_flags(doc, flags)

\* [token.text for token in sent]
span_texts(doc, span) == [k \in 1..(span[2] - span[1]) |-> doc[span[1] + k - 1]]

sents_texts(doc, spans) == [s \in 1..Len(spans) |-> span_texts(doc, spans[s])]

SpanStarts(spans) == { spans[s][1] : s \in 1..Len(spans) }

----------------------------------------------------------------------------
(* The session: the nlp object, one current Doc *)

EmptyDoc == MakeDoc(<<>>)

\* nlp = spacy.load('en_core_web_sm')
DefaultPipeline == <<"parser">>

InPipeline(name) == \E k \in 1..Len(pipe_names) : pipe_names[k] = name

Ran(name) == \E k \in 1..Len(applied) : applied[k] = name

\* nlp.add_pipe(name, before='parser')
insert_before_parser(names, name) ==
    LET k == CHOOSE j \in 1..Len(names) : names[j] = "parser"
    IN  SubSeq(names, 1, k - 1) \o <<name>> \o SubSeq(names, k, Len(names))

\* The parts of the state a session does not use.
NoLexeme == [kind |-> "none"]

NoResult == [kind |-> "none"]

VocabUnused ==
    /\ vectors = <<>>
    /\ lexemes = <<>>
    /\ lex = NoLexeme

SimUnused ==
    /\ vec_x = <<>>
    /\ vec_y = <<>>
    /\ sim_xy = NoResult
    /\ sim_yx = NoResult

MeanUnused ==
    /\ text_words = <<>>
    /\ doc_vec = NoResult

ScanUnused ==
    /\ scan_i = 0
    /\ computed_similarities = <<>>
    /\ computed_similarities1 = <<>>

StopUnused ==
    /\ stop_words = {}
    /\ stop_flags = <<>>
    /\ stop_pc = "idle"
    /\ stop_word = <<>>
    /\ stop_err = "none"

RestUnused == MeanUnused /\ ScanUnused /\ StopUnused

Init ==
    /\ doc_text \in Docs
    /\ pipe_names = DefaultPipeline
    /\ tokens = EmptyDoc
    /\ is_sent_start = NoFlags(EmptyDoc)
    /\ applied = <<>>
    /\ pc = "idle"
    /\ user_hook = FALSE
    /\ accessed = {}
    /\ err = "none"
    /\ sents_listed = FALSE
    /\ sents = <<>>
    /\ write_result = "none"
    /\ VocabUnused
    /\ SimUnused
    /\ RestUnused

\* nlp = spacy.load('en_core_web_sm')  # reset to the original
Load ==
    /\ pc = "idle"
    /\ pipe_names # DefaultPipeline
    /\ pipe_names' = DefaultPipeline
    /\ UNCHANGED <<doc_text, tokens, is_sent_start, applied, pc, user_hook,
                   accessed, err, sents_listed, sents, write_result>>
    /\ UNCHANGED <<vocab_vars, sim_vars>>
    /\ UNCHANGED rest_vars

\* Mutation: adding the component also runs it over the Doc that exists.
AddYourName_rerun ==
    /\ pc = "idle"
    /\ ~InPipeline("your_name")
    /\ pipe_names' = insert_before_parser(pipe_names, "your_name")
    /\ is_sent_start' = set_custom_boundaries(tokens, is_sent_start).flags
    /\ UNCHANGED <<doc_text, tokens, applied, pc, user_hook,
                   accessed, err, sents_listed, sents, write_result>>
    /\ UNCHANGED <<vocab_vars, sim_vars>>
    /\ UNCHANGED rest_vars

\* Mutation: the component is added while nlp(text) is running.
AddYourName_anytime ==
    /\ ~InPipeline("your_name")
    /\ pipe_names' = insert_before_parser(pipe_names, "your_name")
    /\ UNCHANGED <<doc_text, tokens, is_sent_start, applied, pc, user_hook,
                   accessed, err, sents_listed, sents, write_result>>
    /\ UNCHANGED <<vocab_vars, sim_vars>>
    /\ UNCHANGED rest_vars

\* nlp.add_pipe('your_name', before='parser')
AddYourName ==
    /\ pc = "idle"
    /\ ~InPipeline("your_name")
    /\ pipe_names' = insert_before_parser(pipe_names, "your_name")
    /\ UNCHANGED <<doc_text, tokens, is_sent_start, applied, pc, user_hook,
                   accessed, err, sents_listed, sents, write_result>>
    /\ UNCHANGED <<vocab_vars, sim_vars>>
    /\ UNCHANGED rest_vars

\* sbd = SentenceSegmenter(nlp.vocab, strategy=split_on_newlines); nlp.add_pipe(sbd)
AddSbd ==
    /\ pc = "idle"
    /\ ~InPipeline("sbd")
    /\ pipe_names' = Append(pipe_names, "sbd")
    /\ UNCHANGED <<doc_text, tokens, is_sent_start, applied, pc, user_hook,
                   accessed, err, sents_listed, sents, write_result>>
    /\ UNCHANGED <<vocab_vars, sim_vars>>
    /\ UNCHANGED rest_vars

\* doc = nlp(text): the tokenizer makes the Doc, then the components run.
CallNlp ==
    /\ pc = "idle"
    /\ tokens' = doc_text
    /\ is_sent_start' = NoFlags(doc_text)
    /\ applied' = <<>>
    /\ pc' = "pipe"
    /\ user_hook' = FALSE
    /\ accessed' = {}
    /\ err' = "none"
    /\ sents_listed' = FALSE
    /\ sents' = <<>>
    /\ write_result' = "none"
    /\ UNCHANGED <<doc_text, pipe_names>>
    /\ UNCHANGED <<vocab_vars, sim_vars>>
    /\ UNCHANGED rest_vars

NextPipe == pipe_names[Len(applied) + 1]

Advance ==
    /\ applied' = Append(applied, NextPipe)
    /\ pc' = IF Len(applied) + 1 = Len(pipe_names) THEN "idle" ELSE "pipe"

\* The 'your_name' component.
RunYourName ==
    /\ pc = "pipe"
    /\ NextPipe = "your_name"
    /\ LET st == set_custom_boundaries(tokens, is_sent_start)
       IN  /\ is_sent_start' = st.flags
           /\ accessed' = st.accessed
           /\ err' = st.err
           /\ IF st.err = "none"
              THEN Advance
              ELSE pc' = "idle" /\ UNCHANGED applied
    /\ UNCHANGED <<doc_text, pipe_names, tokens, user_hook, sents_listed, sents,
                   write_result>>
    /\ UNCHANGED <<vocab_vars, sim_vars>>
    /\ UNCHANGED rest_vars

\* The 'parser' component.
RunParser ==
    /\ pc = "pipe"
    /\ NextPipe = "parser"
    /\ is_sent_start' = parser(tokens, is_sent_start)
    /\ Advance
    /\ UNCHANGED <<doc_text, pipe_names, tokens, user_hook, accessed, err,
                   sents_listed, sents, write_result>>
    /\ UNCHANGED <<vocab_vars, sim_vars>>
    /\ UNCHANGED rest_vars

\* The sbd component: the strategy becomes the Doc's sents hook.
RunSbd ==
    /\ pc = "pipe"
    /\ NextPipe = "sbd"
    /\ user_hook' = TRUE
    /\ Advance
    /\ UNCHANGED <<doc_text, pipe_names, tokens, is_sent_start, accessed, err,
                   sents_listed, sents, write_result>>
    /\ UNCHANGED <<vocab_vars, sim_vars>>
    /\ UNCHANGED rest_vars

\* A Doc has been returned by nlp(text).
HasDoc == pc = "idle" /\ err = "none" /\ Ran("parser")

\* [sent for sent in doc.sents]
\* Mutation: doc.sents is used up by its first reading.
ListSents_used_up ==
    /\ HasDoc
    /\ sents' = IF sents_listed THEN <<>>
              ELSE doc_sents(tokens, is_sent_start, user_hook)
    /\ sents_listed' = TRUE
    /\ UNCHANGED <<doc_text, pipe_names, tokens, is_sent_start, applied, pc,
                   user_hook, accessed, err, write_result>>
    /\ UNCHANGED <<vocab_vars, sim_vars>>
    /\ UNCHANGED rest_vars

\* for sent in doc.sents: ...   (each reading of doc.sents starts afresh)
ListSents ==
    /\ HasDoc
    /\ sents' = doc_sents(tokens, is_sent_start, user_hook)
    /\ sents_listed' = TRUE
    /\ UNCHANGED <<doc_text, pipe_names, tokens, is_sent_start, applied, pc,
                   user_hook, accessed, err, write_result>>
    /\ UNCHANGED <<vocab_vars, sim_vars>>
    /\ UNCHANGED rest_vars

\* Mutation: the setter writes the flag whether or not the Doc is parsed.
token_set_sent_start_unchecked(flags, parsed, i, value) ==
    [flags |-> [flags EXCEPT ![i] = value], result |-> "written"]

\* doc[i].is_sent_start = value
\* ValueError: [E043] Refusing to write to token.sent_start if its document
\* is parsed
token_set_sent_start(flags, parsed, i, value) ==
    IF parsed
    THEN [flags |-> flags, result |-> "E043"]
    ELSE [flags |-> [flags EXCEPT ![i] = value], result |-> "written"]

\* doc3[7].is_sent_start = True, on a Doc that nlp(text) returned.
SetSentStart ==
    /\ HasDoc
    /\ \E i \in DOMAIN tokens, value \in BOOLEAN :
          LET w == token_set_sent_start(is_sent_start, Ran("parser"), i, value)
          IN  /\ is_sent_start' = w.flags
              /\ write_result' = w.result
    /\ UNCHANGED <<doc_text, pipe_names, tokens, applied, pc, user_hook,
                   accessed, err, sents_listed, sents>>
    /\ UNCHANGED <<vocab_vars, sim_vars>>
    /\ UNCHANGED rest_vars

Next ==
    \/ Load
    \/ AddYourName
    \/ AddSbd
    \/ CallNlp
    \/ RunYourName
    \/ RunParser
    \/ RunSbd
    \/ ListSents
    \/ SetSentStart

Spec == Init /\ [][Next]_vars

----------------------------------------------------------------------------
(* One boundary-marking pass: any sequence of rules over any flags *)

RuleSeqs == UNION { [1..k -> {"your_name", "parser"}] : k \in 1..MaxRules }

InitRules ==
    /\ doc_text \in DocsUpTo(MaxRuleLen)
    /\ pipe_names \in RuleSeqs
    /\ tokens = doc_text
    /\ is_sent_start \in [DOMAIN doc_text -> BOOLEAN]
    /\ applied = <<>>
    /\ pc = "pipe"
    /\ user_hook = FALSE
    /\ accessed = {}
    /\ err = "none"
    /\ sents_listed = FALSE
    /\ sents = <<>>
    /\ write_result = "none"
    /\ VocabUnused
    /\ SimUnused
    /\ RestUnused

NextRules ==
    \/ RunYourName
    \/ RunParser

SpecRules == InitRules /\ [][NextRules]_vars

----------------------------------------------------------------------------
(* Properties *)

BeginsWithNewline(t) == Len(t) >= 1 /\ t[1] = NL

\* list(doc.sents) was produced by the newline strategy.
NewlineSents == sents_listed /\ user_hook

LastIndex == DocLen(tokens) - 1

SpansPartition(doc, spans) ==
    /\ Len(spans) >= 1
    /\ spans[1][1] = 0
    /\ spans[Len(spans)][2] = DocLen(doc)
    /\ \A s \in 2..Len(spans) : spans[s][1] = spans[s - 1][2]
    /\ \A i \in DOMAIN doc :
          Cardinality({ s \in 1..Len(spans) :
                          spans[s][1] <= i /\ i < spans[s][2] }) = 1

\* C1: for a non-empty Doc the listed sentences are at least one span, the
\* first starts at 0, the last ends at the Doc's length, every span starts
\* where the previous one ends, and every token index lies in exactly one.
C1_SpansPartition ==
    (sents_listed /\ DocLen(tokens) > 0) => SpansPartition(tokens, sents)

C1_Witness ==
    /\ NewlineSents
    /\ DocLen(tokens) >= 3
    /\ Len(sents) >= 2

\* a..b is a maximal run of newline-starting tokens followed by another token.
NewlineRun(a, b) ==
    /\ a <= b
    /\ \A i \in a..b : BeginsWithNewline(tokens[i])
    /\ a = 0 \/ ~BeginsWithNewline(tokens[a - 1])
    /\ b + 1 \in DOMAIN tokens
    /\ ~BeginsWithNewline(tokens[b + 1])

\* C2: in newline mode a run of two or more consecutive newline-starting
\* tokens followed by a non-newline token produces exactly one boundary,
\* placed at the first non-newline token after the run.
C2_RunCollapsed ==
    NewlineSents =>
        \A a, b \in DOMAIN tokens :
            (NewlineRun(a, b) /\ b > a) =>
                SpanStarts(sents) \cap ((a + 1)..(b + 1)) = {b + 1}

C4_NoEmptySpan ==
    (NewlineSents /\ DocLen(tokens) > 0) =>
        \A s \in 1..Len(sents) : sents[s][1] < sents[s][2]

C4_Witness ==
    /\ NewlineSents
    /\ DocLen(tokens) >= 4
    /\ BeginsWithNewline(tokens[0])
    /\ BeginsWithNewline(tokens[1])
    /\ BeginsWithNewline(tokens[LastIndex])

\* C5: the sentences of an empty Doc are an empty sequence of spans, and
\* nothing is raised.
C5_EmptyDocNoSpans ==
    (sents_listed /\ DocLen(tokens) = 0) => (sents = <<>> /\ err = "none")

\* C6: newline mode on This is a \n third sentence . gives exactly the spans
\* [This is a \n] and [third sentence .]; on the 17-token Doc it gives
\* exactly three spans, the first ending with \n\n, the second with \n.
C6_NewlineExamples ==
    /\ (NewlineSents /\ tokens = third_tokens) =>
          sents_texts(tokens, sents) =
              << <<W_This, W_is, W_a, <<NL>> >>,
                 <<W_third, W_sentence, W_dot>> >>
    /\ (NewlineSents /\ tokens = mystring_tokens) =>
          sents_texts(tokens, sents) =
              << <<W_This, W_is, W_a, W_sentence, W_dot,
                   W_This, W_is, W_another, W_dot, <<NL, NL>> >>,
                 <<W_This, W_is, W_a, <<NL>> >>,
                 <<W_third, W_sentence, W_dot>> >>

C6_Witness ==
    /\ NewlineSents
    /\ tokens = mystring_tokens
    /\ Len(sents) = 3
    /\ tokens[sents[1][2] - 1] = <<NL, NL>>
    /\ tokens[sents[2][2] - 1] = <<NL>>

\* C7: in newline mode every span start other than 0 directly follows a
\* newline-starting token; a token that follows "." or ";" or that the parser
\* or the custom rule flagged starts no span unless it follows such a token.
C7_OnlyNewlinesSplit ==
    NewlineSents =>
        /\ \A i \in SpanStarts(sents) \ {0} : BeginsWithNewline(tokens[i - 1])
        /\ \A i \in DOMAIN tokens \ {0} :
              ( /\ \/ is_sent_start[i]
                   \/ tokens[i - 1] \in EndPunct
                   \/ tokens[i - 1] = W_semi
                /\ ~BeginsWithNewline(tokens[i - 1]) ) =>
                  i \notin SpanStarts(sents)

C7_Witness ==
    /\ NewlineSents
    /\ Ran("your_name")
    /\ Len(sents) >= 2
    /\ \E i, j \in DOMAIN tokens \ {0} :
          /\ tokens[i - 1] = W_dot /\ is_sent_start[i]
          /\ tokens[j - 1] = W_semi /\ is_sent_start[j]
          /\ i \notin SpanStarts(sents)
          /\ j \notin SpanStarts(sents)

\* C8: run first in the pipeline, the semicolon rule flags exactly the tokens
\* that directly follow a ";"; on A ; B . the sentences are [A ;] and [B .].
C8_SemicolonRule ==
    /\ applied = <<"your_name">> =>
          \A i \in DOMAIN tokens :
              is_sent_start[i] <=> (i > 0 /\ tokens[i - 1] = W_semi)
    /\ ( /\ sents_listed /\ ~user_hook /\ Ran("your_name")
         /\ tokens = semicolon_tokens ) =>
          sents_texts(tokens, sents) = << <<W_A, W_semi>>, <<W_B, W_dot>> >>

C8_Witness ==
    /\ sents_listed /\ ~user_hook /\ Ran("your_name")
    /\ tokens = semicolon_tokens
    /\ sents = << <<0, 2>>, <<2, 4>> >>

\* C9: the semicolon rule raises nothing and writes no index at or past the
\* Doc's length; when the only ";" is the last token, or the Doc is empty,
\* it changes no flag.
C9_NoOutOfRange ==
    /\ err = "none"
    /\ accessed \subseteq DOMAIN tokens
    /\ ( /\ applied = <<"your_name">>
         /\ \A i \in DOMAIN tokens : tokens[i] = W_semi => i = LastIndex ) =>
          \A i \in DOMAIN tokens : ~is_sent_start[i]

C9_Witness ==
    /\ applied = <<"your_name">>
    /\ DocLen(tokens) >= 2
    /\ tokens[LastIndex] = W_semi
    /\ \A i \in DOMAIN tokens : ~is_sent_start[i]

\* C10: within one boundary-marking pass a flag that is true before a rule
\* runs is true after it, whatever rules are applied in whatever order.
C10_FlagsMonotonic ==
    [][\A i \in DOMAIN tokens : is_sent_start[i] => is_sent_start'[i]]_vars

C10_Witness ==
    /\ Len(applied) >= 2
    /\ applied[Len(applied)] = "your_name"
    /\ \E i \in DOMAIN tokens \ {0} :
          is_sent_start[i] /\ tokens[i - 1] # W_semi
    /\ \E i \in DOMAIN tokens \ {0} :
          is_sent_start[i] /\ tokens[i - 1] = W_semi

\* A step in which doc[i].is_sent_start = value was attempted.
WriteStep ==
    /\ write_result' # "none"
    /\ write_result' # write_result \/ is_sent_start' # is_sent_start

\* C11: once the Doc has been parsed, a direct write of a token's
\* sentence-start flag fails with E043, and the Doc's flags and sentences
\* after the attempt are those before it.
C11_WriteRefused ==
    [][WriteStep =>
          /\ write_result' = "E043"
          /\ is_sent_start' = is_sent_start
          /\ doc_sents(tokens', is_sent_start', user_hook') =
                 doc_sents(tokens, is_sent_start, user_hook)]_vars

C11_Witness ==
    /\ write_result = "E043"
    /\ Ran("parser")
    /\ sents_listed
    /\ Len(sents) >= 2
    /\ \E i \in DOMAIN tokens : ~is_sent_start[i]

Names(p) == { p[k] : k \in 1..Len(p) }

\* A step that adds a component to the pipeline.
Registered == Names(pipe_names') \ Names(pipe_names) # {}

AfterSemicolon(i) == i > 0 /\ tokens[i - 1] = W_semi

\* C12: adding a component leaves the Doc that exists as it was (tokens,
\* flags, listed and recomputed sentences); a Doc made without the
\* semicolon rule has no sentence start after ';', a Doc made with it has
\* one after every ';'.
C12_ExistingDocUntouched ==
    /\ [][Registered =>
             /\ tokens' = tokens
             /\ is_sent_start' = is_sent_start
             /\ sents' = sents
             /\ doc_sents(tokens', is_sent_start', user_hook') =
                    doc_sents(tokens, is_sent_start, user_hook)]_vars
    /\ [](HasDoc =>
             \A i \in DOMAIN tokens :
                 AfterSemicolon(i) => (is_sent_start[i] <=> Ran("your_name")))

C12_Witness ==
    /\ HasDoc
    /\ InPipeline("your_name")
    /\ ~Ran("your_name")
    /\ sents_listed
    /\ \E i \in DOMAIN tokens : AfterSemicolon(i) /\ ~is_sent_start[i]

\* Some nlp(text) call has started in this session.
DocCreated == pc = "pipe" \/ applied # <<>> \/ err # "none"

\* C13 (as stated): no component is added once a document has been created.
C13_RegistryClosed == [][DocCreated => ~Registered]_vars

IsPrefix(a, b) == Len(a) <= Len(b) /\ SubSeq(b, 1, Len(a)) = a

\* C13 (amended): components are added after documents have been created;
\* the pipeline never changes while nlp(text) is running, so each Doc is
\* processed by the components registered when its creation began, in
\* pipeline order.
C13_RegistryFixedDuringPass ==
    /\ [][pc = "pipe" => pipe_names' = pipe_names]_vars
    /\ [](IsPrefix(applied, pipe_names) \/ pc = "idle")
    /\ [][DocCreated => DocCreated']_vars

C13_Witness ==
    /\ HasDoc
    /\ InPipeline("sbd")
    /\ ~Ran("sbd")
    /\ ~InPipeline("your_name")

\* A Doc made by the default components only.
DefaultDoc == HasDoc /\ ~Ran("your_name")

two_sentence_spans ==
    << << W_This, W_is, W_a, W_sentence, W_dot >>,
       << W_This, W_is, W_another, W_dot >> >>

TwoSentenceExample ==
    (tokens = two_sentence_tokens /\ sents_listed /\ ~user_hook)
        => sents_texts(tokens, sents) = two_sentence_spans

PrevWord(i) ==
    LET c == { j \in DOMAIN tokens : j < i /\ ~whitespace_only(tokens[j]) }
    IN  IF c = {} THEN 0 - 1 ELSE CHOOSE j \in c : \A k \in c : k <= j

mystring_default_spans ==
    << << W_This, W_is, W_a, W_sentence, W_dot >>,
       << W_This, W_is, W_another, W_dot, <<NL, NL>> >>,
       << W_This, W_is, W_a, <<NL>>, W_third, W_sentence, W_dot >> >>

\* C15: under default segmentation the whitespace-only tokens after end
\* punctuation start no sentence, the first token after them that is not
\* whitespace-only starts one, and the 17-token text gives the three spans
\* the notebook prints.
C15_WhitespaceStaysBehind ==
    /\ DefaultDoc =>
          \A i, j \in DOMAIN tokens :
              ( /\ tokens[i] \in EndPunct
                /\ i + 1 < j
                /\ \A k \in (i + 1)..(j - 1) : whitespace_only(tokens[k])
                /\ ~whitespace_only(tokens[j]) )
              => /\ is_sent_start[j]
                 /\ \A k \in (i + 1)..(j - 1) : ~is_sent_start[k]
    /\ (tokens = mystring_tokens /\ sents_listed /\ ~user_hook)
          => sents_texts(tokens, sents) = mystring_default_spans

C15_Witness ==
    /\ DefaultDoc
    /\ tokens = mystring_tokens
    /\ sents_listed
    /\ ~user_hook
    /\ Len(sents) = 3
    /\ is_sent_start[10]
    /\ ~is_sent_start[9]

----------------------------------------------------------------------------
(* Vector similarity *)

\* Bound on the coordinates of a word vector.
MaxCoord == 2

Coords == (0 - MaxCoord)..MaxCoord

\* Word vectors, here of two coordinates; the zero vector is the vector of
\* a word that has none.
Vecs == { <<a, b>> : a \in Coords, b \in Coords }

RECURSIVE dot_from(_, _, _)
dot_from(u, v, k) ==
    IF k > Len(u) THEN 0 ELSE u[k] * v[k] + dot_from(u, v, k + 1)

\* np.dot(u, v)
dot(u, v) == dot_from(u, v, 1)

\* king - man + woman
sub_add(king, man, woman) == [k \in 1..Len(king) |-> king[k] - man[k] + woman[k]]

Abs(n) == IF n < 0 THEN 0 - n ELSE n

Sign(n) == IF n < 0 THEN 0 - 1 ELSE IF n = 0 THEN 0 ELSE 1

RECURSIVE GCD(_, _)
GCD(a, b) == IF b = 0 THEN a ELSE GCD(b, a % b)

\* The number p + sgn * sqrt(num / den), with num / den in lowest terms and
\* 0 < num < den when sgn # 0.
Number(p, sgn, num, den) ==
    [kind |-> "float", p |-> p, sgn |-> sgn, num |-> num, den |-> den]

Rational(p) == Number(p, 0, 0, 1)

NaN == [kind |-> "nan"]

\* uv / sqrt(uu * vv), exactly; nan when uu * vv = 0 (0.0 / 0.0).
quotient(uv, uu_vv) ==
    IF uu_vv = 0 THEN NaN
    ELSE IF uv = 0 THEN Rational(0)
    ELSE IF uv * uv = uu_vv THEN Rational(Sign(uv))
    ELSE LET g == GCD(uv * uv, uu_vv)
         IN  Number(0, Sign(uv), (uv * uv) \div g, uu_vv \div g)

\* 1 - v
one_minus(v) ==
    IF v.kind = "nan" THEN NaN
    ELSE Number(1 - v.p, 0 - v.sgn, v.num, v.den)

\* Mutation: the quotient is normalised by the first vector's norm only.
spatial_distance_cosine_first_norm(u, v) ==
    one_minus(quotient(dot(u, v), dot(u, u) * dot(u, u)))

\* spatial.distance.cosine(u, v) = 1 - u.v / (||u|| * ||v||)
spatial_distance_cosine(u, v) ==
    one_minus(quotient(dot(u, v), dot(u, u) * dot(v, v)))

\* Mutation: the distance is returned as the similarity.
cosine_similarity_distance(x, y) == spatial_distance_cosine(x, y)

\* cosine_similarity = lambda x, y: 1 - spatial.distance.cosine(x, y)
cosine_similarity(x, y) == one_minus(spatial_distance_cosine(x, y))

\* The parts of the state a vector session does not use.
SegUnused ==
    /\ doc_text = EmptyDoc
    /\ pipe_names = DefaultPipeline
    /\ tokens = EmptyDoc
    /\ is_sent_start = NoFlags(EmptyDoc)
    /\ applied = <<>>
    /\ pc = "idle"
    /\ user_hook = FALSE
    /\ accessed = {}
    /\ err = "none"
    /\ sents_listed = FALSE
    /\ sents = <<>>
    /\ write_result = "none"

InitSim ==
    /\ vec_x \in Vecs
    /\ vec_y \in Vecs
    /\ sim_xy = NoResult
    /\ sim_yx = NoResult
    /\ SegUnused
    /\ VocabUnused
    /\ RestUnused

\* new_vector = king - man + woman, with king the vector held so far.
NewVector ==
    /\ vec_x \in Vecs
    /\ sim_xy = NoResult
    /\ sim_yx = NoResult
    /\ \E man \in Vecs, woman \in Vecs : vec_x' = sub_add(vec_x, man, woman)
    /\ UNCHANGED <<vec_y, sim_xy, sim_yx>>
    /\ UNCHANGED <<seg_vars, vocab_vars>>
    /\ UNCHANGED rest_vars

\* similarity = cosine_similarity(new_vector, word.vector)
Similarity ==
    /\ sim_xy = NoResult
    /\ sim_xy' = cosine_similarity(vec_x, vec_y)
    /\ UNCHANGED <<vec_x, vec_y, sim_yx>>
    /\ UNCHANGED <<seg_vars, vocab_vars>>
    /\ UNCHANGED rest_vars

\* The same call with the arguments exchanged.
SimilarityReversed ==
    /\ sim_yx = NoResult
    /\ sim_yx' = cosine_similarity(vec_y, vec_x)
    /\ UNCHANGED <<vec_x, vec_y, sim_xy>>
    /\ UNCHANGED <<seg_vars, vocab_vars>>
    /\ UNCHANGED rest_vars

NextSim ==
    \/ NewVector
    \/ Similarity
    \/ SimilarityReversed

SpecSim == InitSim /\ [][NextSim]_vars

NonZero(v) == \E k \in 1..Len(v) : v[k] # 0

\* C16: for every pair of vectors of non-zero norm, the similarity of
\* (x, y) and the similarity of (y, x) are the same number.
C16_Symmetric ==
    (NonZero(vec_x) /\ NonZero(vec_y) /\ sim_xy # NoResult /\ sim_yx # NoResult)
        => (sim_xy.kind = "float" /\ sim_xy = sim_yx)

C16_Witness ==
    /\ NonZero(vec_x)
    /\ NonZero(vec_y)
    /\ vec_x # vec_y
    /\ dot(vec_x, vec_x) # dot(vec_y, vec_y)
    /\ sim_xy.kind = "float"
    /\ sim_yx.kind = "float"
    /\ sim_xy.sgn # 0

\* C17: the similarity of a vector of non-zero norm with itself is 1.
C17_SelfSimilarityOne ==
    (NonZero(vec_x) /\ vec_x = vec_y /\ sim_xy # NoResult)
        => sim_xy = [kind |-> "float", p |-> 1, sgn |-> 0, num |-> 0, den |-> 1]

C17_Witness ==
    /\ NonZero(vec_x)
    /\ vec_x = vec_y
    /\ sim_xy.kind = "float"
    /\ sim_xy.p = 1

\* C18: when either argument has norm 0, similarity fails with
\* DegenerateVectorError and returns no number; the first argument may be
\* the target king - man + woman.
C18_DegenerateVectorError ==
    ((~NonZero(vec_x) \/ ~NonZero(vec_y)) /\ sim_xy # NoResult)
        => sim_xy.kind = "DegenerateVectorError"

----------------------------------------------------------------------------
(* The vocabulary *)

\* Words looked up in the notebook; "nargle" has no vector.
Words == { "dog", "cat", "princess", "nargle" }

\* nlp.vocab.vectors: the keys of the pretrained table, in table order, and
\* their (non-zero) rows.
vector_keys == << "dog", "cat", "princess" >>

vector_table ==
    [w \in Names(vector_keys) |->
        IF w = "dog" THEN <<2, 1>> ELSE IF w = "cat" THEN <<1, 2>> ELSE <<0, 1>>]

ZeroVec == <<0, 0>>

\* The lexemes the vocabulary holds after spacy.load.
InitialVocabs == { <<>>, << "dog" >>, << "cat", "dog" >> }

in_vocab(lexs, w) == \E k \in 1..Len(lexs) : lexs[k] = w

\* Mutation: every access adds a lexeme.
vocab_add_always(lexs, w) == Append(lexs, w)

\* nlp.vocab[w]: "it will be added if necessary"
vocab_add(lexs, w) == IF in_vocab(lexs, w) THEN lexs ELSE Append(lexs, w)

\* The Lexeme nlp.vocab[w] returns, with the attributes the notebook reads;
\* norm2 is the square of vector_norm.
lexeme(table, w) ==
    LET has == w \in DOMAIN table
        vec == IF has THEN table[w] ELSE ZeroVec
    IN  [kind |-> "lexeme", word |-> w, vector |-> vec, has_vector |-> has,
         norm2 |-> dot(vec, vec), is_oov |-> ~has, err |-> "none"]

RECURSIVE add_all(_, _, _)
add_all(lexs, ws, k) ==
    IF k > Len(ws) THEN lexs ELSE add_all(vocab_add(lexs, ws[k]), ws, k + 1)

\* Texts passed to nlp() in the vectors notebook.
VocabTexts == { << "dog", "cat", "nargle" >>, << "princess" >> }

InitVec ==
    /\ vectors = vector_table
    /\ lexemes \in InitialVocabs
    /\ lex = NoLexeme
    /\ SegUnused
    /\ SimUnused
    /\ RestUnused

\* nlp.vocab['princess'], nlp.vocab['king'].vector
Lookup ==
    /\ \E w \in Words :
          /\ lexemes' = vocab_add(lexemes, w)
          /\ lex' = lexeme(vectors, w)
    /\ UNCHANGED vectors
    /\ UNCHANGED <<seg_vars, sim_vars>>
    /\ UNCHANGED rest_vars

\* for s in nlp.vocab.vectors: _ = nlp.vocab[s]
BulkLoad ==
    /\ lexemes' = add_all(lexemes, vector_keys, 1)
    /\ UNCHANGED <<vectors, lex>>
    /\ UNCHANGED <<seg_vars, sim_vars>>
    /\ UNCHANGED rest_vars

\* tokens = nlp(u'dog cat nargle'): the lexemes seen are added.
NlpText ==
    /\ \E ws \in VocabTexts : lexemes' = add_all(lexemes, ws, 1)
    /\ UNCHANGED <<vectors, lex>>
    /\ UNCHANGED <<seg_vars, sim_vars>>
    /\ UNCHANGED rest_vars

NextVec ==
    \/ Lookup
    \/ BulkLoad
    \/ NlpText

SpecVec == InitVec /\ [][NextVec]_vars

\* C19: the lookup of a word with no stored vector fails with
\* OutOfVocabulary, and the word has has_vector false, norm 0 and is
\* out-of-vocabulary; a word with has_vector true has a norm above 0.
C19_OutOfVocabulary ==
    lex # NoLexeme =>
        /\ lex.word \notin DOMAIN vectors =>
              /\ lex.err = "OutOfVocabulary"
              /\ ~lex.has_vector
              /\ lex.norm2 = 0
              /\ lex.is_oov
        /\ lex.has_vector => lex.norm2 > 0

NoDup(q) == \A a, b \in 1..Len(q) : q[a] = q[b] => a = b

\* C20: a lookup of a word the vocabulary lacks makes it one larger and
\* holds the word afterwards, a lookup of a word it has leaves it as it
\* was, the size never decreases, lexemes already held stay, and no word
\* is held twice.
C20_InsertOnMiss ==
    /\ [][/\ Len(lexemes') >= Len(lexemes)
          /\ IsPrefix(lexemes, lexemes')
          /\ lex' # lex =>
                IF lex'.word \in Names(lexemes)
                THEN lexemes' = lexemes
                ELSE /\ Len(lexemes') = Len(lexemes) + 1
                     /\ lex'.word \in Names(lexemes')]_vars
    /\ [](NoDup(lexemes))

C20_Witness ==
    /\ lex # NoLexeme
    /\ lex.word = "nargle"
    /\ Len(lexemes) = Cardinality(Words)
    /\ lexemes[Len(lexemes)] = "nargle"

----------------------------------------------------------------------------
(* Doc.vector *)

\* Bound on the number of tokens of a Doc whose vector is read.
MaxTokens == 3

MeanTexts == UNION { [1..n -> Words] : n \in 1..MaxTokens }

\* token.vector: the row of the table, or zeros for a word without one.
token_vector(table, w) == IF w \in DOMAIN table THEN table[w] ELSE ZeroVec

RECURSIVE vector_sum(_, _, _)
vector_sum(table, ws, k) ==
    IF k > Len(ws) THEN ZeroVec
    ELSE LET v == token_vector(table, ws[k])
             r == vector_sum(table, ws, k + 1)
         IN  [c \in 1..Len(v) |-> v[c] + r[c]]

\* doc.vector: "the average of all words vectors"; the mean is held as the
\* sum and the number it is divided by.
doc_vector(table, ws) ==
    [kind |-> "vector", sum |-> vector_sum(table, ws, 1), count |-> Len(ws)]

InitMean ==
    /\ vectors = vector_table
    /\ lexemes \in InitialVocabs
    /\ lex = NoLexeme
    /\ text_words \in MeanTexts
    /\ doc_vec = NoResult
    /\ SegUnused
    /\ SimUnused
    /\ ScanUnused
    /\ StopUnused

\* doc = nlp(u'The quick brown fox ...'); doc.vector
DocVector ==
    /\ doc_vec = NoResult
    /\ lexemes' = add_all(lexemes, text_words, 1)
    /\ doc_vec' = doc_vector(vectors, text_words)
    /\ UNCHANGED <<vectors, lex, text_words>>
    /\ UNCHANGED <<seg_vars, sim_vars, scan_vars, stop_vars>>

NextMean == DocVector

SpecMean == InitMean /\ [][NextMean]_vars

\* The tokens of the Doc that have a vector.
Known == { k \in 1..Len(text_words) : text_words[k] \in DOMAIN vectors }

RECURSIVE KnownSum(_, _)
KnownSum(S, c) ==
    IF S = {} THEN 0
    ELSE LET k == CHOOSE x \in S : TRUE
         IN  vectors[text_words[k]][c] + KnownSum(S \ {k}, c)

\* C21: doc.vector is the mean over the tokens that have a vector (sum and
\* count both leave the others out), and it fails with
\* EmptyVectorableInput when no token has one.
C21_MeanOverKnownTokens ==
    doc_vec # NoResult =>
        IF Known = {}
        THEN doc_vec.kind = "EmptyVectorableInput"
        ELSE /\ doc_vec.kind = "vector"
             /\ \A c \in 1..Len(ZeroVec) :
                    doc_vec.sum[c] * Cardinality(Known) =
                        KnownSum(Known, c) * doc_vec.count

----------------------------------------------------------------------------
(* The analogy scan *)

LowerChars ==
    { "a", "b", "c", "d", "e", "f", "g", "h", "i", "j", "k", "l", "m",
      "n", "o", "p", "q", "r", "s", "t", "u", "v", "w", "x", "y", "z" }

UpperChars ==
    { "A", "B", "C", "D", "E", "F", "G", "H", "I", "J", "K", "L", "M",
      "N", "O", "P", "Q", "R", "S", "T", "U", "V", "W", "X", "Y", "Z" }

\* str.islower(): some cased character, and no uppercase one.
str_islower(text) ==
    /\ \E k \in 1..Len(text) : text[k] \in LowerChars
    /\ \A k \in 1..Len(text) : text[k] \notin UpperChars

\* str.isalpha(): not empty, and letters only.
str_isalpha(text) ==
    /\ Len(text) > 0
    /\ \A k \in 1..Len(text) : text[k] \in LowerChars \cup UpperChars

W_king == <<"k", "i", "n", "g">>
W_man == <<"m", "a", "n">>
W_woman == <<"w", "o", "m", "a", "n">>
W_queen == <<"q", "u", "e", "e", "n">>
W_kingi == <<"k", "i", "n", "g", "i">>
W_King == <<"K", "i", "n", "g">>
W_k9 == <<"k", "9">>
W_nargle == <<"n", "a", "r", "g", "l", "e">>

\* The entries of nlp.vocab the scan goes through, in one order.
scan_entries ==
    << W_king, W_man, W_woman, W_queen, W_kingi, W_King, W_k9, W_nargle >>

\* Rows of nlp.vocab.vectors; 'kingi' shares the row of 'king', 'nargle'
\* has none.
scan_table ==
    [w \in Names(scan_entries) \ {W_nargle} |->
        IF w \in {W_king, W_kingi} THEN <<2, 2>>
        ELSE IF w = W_man THEN <<1, 0>>
        ELSE IF w = W_woman THEN <<0, 1>>
        ELSE IF w = W_queen THEN <<0 - 1, 2>>
        ELSE IF w = W_King THEN <<1, 2>>
        ELSE <<1, 1>>]

\* new_vector = king - man + woman
new_vector(table) == sub_add(table[W_king], table[W_man], table[W_woman])

\* Mutation: the is_alpha test is left out.
passes_filters_no_alpha(table, w) ==
    /\ w \in DOMAIN table
    /\ str_islower(w)

\* Mutation: the words of the query are skipped.
passes_filters_skip_query(table, w) ==
    /\ w \in DOMAIN table
    /\ str_islower(w)
    /\ str_isalpha(w)
    /\ w \notin {W_king, W_man, W_woman}

\* if word.has_vector: if word.is_lower: if word.is_alpha:
passes_filters(table, w) ==
    /\ w \in DOMAIN table
    /\ str_islower(w)
    /\ str_isalpha(w)

\* One turn of "for word in nlp.vocab".
scan_word(table, out, w) ==
    IF passes_filters(table, w)
    THEN Append(out, <<w, cosine_similarity(new_vector(table), table[w])>>)
    ELSE out

\* sign(v) * v * v as a fraction <<numerator, denominator>>: it orders
\* the similarities as their values do.
signed_square(v) ==
    IF v.sgn = 0 THEN <<Sign(v.p) * v.p * v.p, 1>>
    ELSE <<v.sgn * v.num, v.den>>

\* a < b
float_less(a, b) ==
    signed_square(a)[1] * signed_square(b)[2] <
        signed_square(b)[1] * signed_square(a)[2]

\* Where a stable sort by -item[1] puts item: after every item whose key
\* is not larger.
RECURSIVE insert_sorted(_, _, _)
insert_sorted(out, item, k) ==
    IF k > Len(out) \/ float_less(out[k][2], item[2])
    THEN SubSeq(out, 1, k - 1) \o <<item>> \o SubSeq(out, k, Len(out))
    ELSE insert_sorted(out, item, k + 1)

RECURSIVE sort_from(_, _, _)
sort_from(items, k, out) ==
    IF k > Len(items) THEN out
    ELSE sort_from(items, k + 1, insert_sorted(out, items[k], 1))

\* sorted(computed_similarities, key=lambda item: -item[1])
sorted_by_similarity(items) == sort_from(items, 1, <<>>)

\* The orders in which nlp.vocab can hand out its entries.
ScanOrders ==
    { [k \in 1..Len(scan_entries) |-> scan_entries[f[k]]] :
          f \in Permutations(1..Len(scan_entries)) }

InitScan ==
    /\ vectors = scan_table
    /\ lexemes \in ScanOrders
    /\ lex = NoLexeme
    /\ scan_i = 0
    /\ computed_similarities = <<>>
    /\ computed_similarities1 = <<>>
    /\ SegUnused
    /\ SimUnused
    /\ MeanUnused
    /\ StopUnused

\* for word in nlp.vocab: ... computed_similarities.append((word, similarity))
ScanWord ==
    /\ scan_i < Len(lexemes)
    /\ scan_i' = scan_i + 1
    /\ computed_similarities' =
           scan_word(vectors, computed_similarities, lexemes[scan_i + 1])
    /\ UNCHANGED <<computed_similarities1, vocab_vars>>
    /\ UNCHANGED <<seg_vars, sim_vars, mean_vars, stop_vars>>

\* computed_similarities1 = sorted(computed_similarities, key=...)
SortSimilarities ==
    /\ scan_i = Len(lexemes)
    /\ computed_similarities # <<>>
    /\ computed_similarities1 = <<>>
    /\ computed_similarities1' = sorted_by_similarity(computed_similarities)
    /\ UNCHANGED <<scan_i, computed_similarities, vocab_vars>>
    /\ UNCHANGED <<seg_vars, sim_vars, mean_vars, stop_vars>>

NextScan ==
    \/ ScanWord
    \/ SortSimilarities

SpecScan == InitScan /\ [][NextScan]_vars

Letters == LowerChars \cup UpperChars

\* The word has a vector, no uppercase letter and some lowercase one, and
\* letters only.
Eligible(w) ==
    /\ w \in DOMAIN vectors
    /\ \A k \in 1..Len(w) : w[k] \in Letters /\ w[k] \notin UpperChars
    /\ Len(w) > 0

Visited == { lexemes[k] : k \in 1..scan_i }

ScoredWords(items) == { items[k][1] : k \in 1..Len(items) }

\* The cosine similarity of the word's vector to king - man + woman.
TargetScore(w) ==
    cosine_similarity(sub_add(vectors[W_king], vectors[W_man], vectors[W_woman]),
                      vectors[w])

ScanDone == scan_i = Len(lexemes) /\ scan_i > 0

\* C22: the scan's result holds exactly the visited entries that have a
\* vector, are lowercase and are alphabetic, each once and each with its
\* cosine similarity to king - man + woman.
C22_ExactlyTheFiltered ==
    /\ ScoredWords(computed_similarities) = { w \in Visited : Eligible(w) }
    /\ \A a, b \in 1..Len(computed_similarities) :
           computed_similarities[a][1] = computed_similarities[b][1] => a = b
    /\ \A a \in 1..Len(computed_similarities) :
           computed_similarities[a][2] = TargetScore(computed_similarities[a][1])

C22_Witness ==
    /\ ScanDone
    /\ Len(computed_similarities) = 5
    /\ W_King \in Visited
    /\ W_k9 \in Visited
    /\ W_nargle \in Visited

\* The characters in code-point order.
CharOrder ==
    << "0", "1", "2", "3", "4", "5", "6", "7", "8", "9",
       "A", "B", "C", "D", "E", "F", "G", "H", "I", "J", "K", "L", "M",
       "N", "O", "P", "Q", "R", "S", "T", "U", "V", "W", "X", "Y", "Z",
       "a", "b", "c", "d", "e", "f", "g", "h", "i", "j", "k", "l", "m",
       "n", "o", "p", "q", "r", "s", "t", "u", "v", "w", "x", "y", "z" >>

Ord(c) == CHOOSE k \in 1..Len(CharOrder) : CharOrder[k] = c

\* u < v in lexical order.
LexLess(u, v) ==
    \E k \in 1..(Len(v)) :
        /\ \A j \in 1..(k - 1) : j <= Len(u) /\ u[j] = v[j]
        /\ \/ k = Len(u) + 1
           \/ k <= Len(u) /\ Ord(u[k]) < Ord(v[k])

Sorted == computed_similarities1 # <<>>

\* C23: the ranking is in descending order of score, and entries of equal
\* score are in ascending lexical order of their words.
C23_TiesInLexicalOrder ==
    \A a, b \in 1..Len(computed_similarities1) :
        a < b =>
            /\ ~float_less(computed_similarities1[a][2],
                           computed_similarities1[b][2])
            /\ computed_similarities1[a][2] = computed_similarities1[b][2]
                   => LexLess(computed_similarities1[a][1],
                              computed_similarities1[b][1])

Rank(w) == CHOOSE k \in 1..Len(computed_similarities1) :
               computed_similarities1[k][1] = w

\* C29: 'king', 'man' and 'woman' are in the ranking with their own
\* scores, placed by score like every other entry, and 'king' is ranked
\* above 'queen'.
C29_QueryWordsRanked ==
    Sorted =>
        /\ \A q \in {W_king, W_man, W_woman} :
               /\ q \in ScoredWords(computed_similarities1)
               /\ computed_similarities1[Rank(q)][2] = TargetScore(q)
        /\ W_queen \in ScoredWords(computed_similarities1)
        /\ Rank(W_king) < Rank(W_queen)

C29_Witness ==
    /\ Sorted
    /\ Rank(W_king) = 2
    /\ W_queen \in ScoredWords(computed_similarities1)
    /\ Rank(W_queen) > Rank(W_king)
    /\ Rank(W_man) > Rank(W_queen)

----------------------------------------------------------------------------
(* Stop words *)

W_btw == <<"b", "t", "w">>
W_Btw == <<"B", "t", "w">>
W_beyond == <<"b", "e", "y", "o", "n", "d">>
W_Beyond == <<"B", "e", "y", "o", "n", "d">>
W_myself == <<"m", "y", "s", "e", "l", "f">>
W_mystery == <<"m", "y", "s", "t", "e", "r", "y">>

\* The words the cells add or remove ("Use lowercase!") and the words
\* whose is_stop they read.
EditWords == { W_btw, W_beyond, W_myself, W_mystery }

ReadWords == EditWords \cup { W_Btw, W_Beyond }

\* str.lower()
lower_char(c) ==
    IF c \in UpperChars THEN CharOrder[Ord(c) + Cardinality(UpperChars)] ELSE c

lower(text) == [k \in 1..Len(text) |-> lower_char(text[k])]

\* Mutation: a lexeme is kept under the spelling it was asked for.
vocab_key_exact(w) == w

\* "Lexemes are converted to lowercase before being added to vocab."
vocab_key(w) == lower(w)

\* nlp.vocab[w].is_stop
is_stop(flags, w) == flags[vocab_key(w)]

\* Mutation: the write reaches every lexeme.
set_is_stop_every(flags, w, value) == [k \in DOMAIN flags |-> value]

\* Mutation: the write is lost.
set_is_stop_lost(flags, w, value) == flags

\* nlp.vocab[w].is_stop = value
set_is_stop(flags, w, value) == [flags EXCEPT ![vocab_key(w)] = value]

\* nlp.Defaults.stop_words.add(w)
set_add(S, w) == S \cup {w}

\* Mutation: the word stays in the set.
set_remove_kept(S, w) == [err |-> "none", set |-> S]

\* nlp.Defaults.stop_words.remove(w): KeyError if w is not a member.
set_remove(S, w) ==
    IF w \in S
    THEN [err |-> "none", set |-> S \ {w}]
    ELSE [err |-> "KeyError", set |-> S]

\* After spacy.load the flag of every lexeme says whether its lowercase
\* form is in the default set.
InitStop ==
    /\ stop_words \in SUBSET EditWords
    /\ stop_flags = [w \in ReadWords |-> lower(w) \in stop_words]
    /\ stop_pc = "idle"
    /\ stop_word = <<>>
    /\ stop_err = "none"
    /\ SegUnused
    /\ VocabUnused
    /\ SimUnused
    /\ MeanUnused
    /\ ScanUnused

\* nlp.Defaults.stop_words.add('btw')
AddToSet ==
    /\ stop_pc = "idle"
    /\ \E w \in EditWords :
          /\ stop_words' = set_add(stop_words, w)
          /\ stop_word' = w
    /\ stop_pc' = "set_flag"
    /\ stop_err' = "none"
    /\ UNCHANGED stop_flags
    /\ UNCHANGED <<seg_vars, vocab_vars, sim_vars, mean_vars, scan_vars>>

\* nlp.vocab['btw'].is_stop = True
SetFlag ==
    /\ stop_pc = "set_flag"
    /\ stop_flags' = set_is_stop(stop_flags, stop_word, TRUE)
    /\ stop_pc' = "idle"
    /\ UNCHANGED <<stop_words, stop_word, stop_err>>
    /\ UNCHANGED <<seg_vars, vocab_vars, sim_vars, mean_vars, scan_vars>>

\* nlp.Defaults.stop_words.remove('beyond')
RemoveFromSet ==
    /\ stop_pc = "idle"
    /\ \E w \in EditWords :
          LET r == set_remove(stop_words, w)
          IN  /\ stop_words' = r.set
              /\ stop_err' = r.err
              /\ stop_word' = w
              /\ stop_pc' = IF r.err = "none" THEN "clear_flag" ELSE "idle"
    /\ UNCHANGED stop_flags
    /\ UNCHANGED <<seg_vars, vocab_vars, sim_vars, mean_vars, scan_vars>>

\* nlp.vocab['beyond'].is_stop = False
ClearFlag ==
    /\ stop_pc = "clear_flag"
    /\ stop_flags' = set_is_stop(stop_flags, stop_word, FALSE)
    /\ stop_pc' = "idle"
    /\ UNCHANGED <<stop_words, stop_word, stop_err>>
    /\ UNCHANGED <<seg_vars, vocab_vars, sim_vars, mean_vars, scan_vars>>

NextStop ==
    \/ AddToSet
    \/ SetFlag
    \/ RemoveFromSet
    \/ ClearFlag

SpecStop == InitStop /\ [][NextStop]_vars

\* v and w are the same word up to the case of their letters.
CaseVariant(v, w) ==
    /\ Len(v) = Len(w)
    /\ \A k \in 1..Len(v) :
           \/ v[k] = w[k]
           \/ /\ {v[k], w[k]} \subseteq Letters
              /\ Abs(Ord(v[k]) - Ord(w[k])) = Cardinality(UpperChars)

AddSetStep == stop_pc = "idle" /\ stop_pc' = "set_flag"

SetFlagStep == stop_pc = "set_flag" /\ stop_pc' = "idle"

RemoveSetStep == stop_pc = "idle" /\ stop_pc' = "clear_flag"

ClearFlagStep == stop_pc = "clear_flag" /\ stop_pc' = "idle"

C25_RemoveStopWord ==
    /\ [][/\ RemoveSetStep =>
                /\ stop_word' \in stop_words
                /\ Cardinality(stop_words') = Cardinality(stop_words) - 1
          /\ ClearFlagStep =>
                /\ ~is_stop(stop_flags', stop_word)
                /\ stop_words' = stop_words]_vars
    /\ [](\A w \in EditWords \ stop_words, v \in stop_words :
              LET r == set_remove(set_add(stop_words, w), v)
              IN  /\ r.err = "none"
                  /\ Cardinality(r.set) = Cardinality(stop_words))

C25_Witness ==
    /\ stop_pc = "idle"
    /\ stop_err = "none"
    /\ stop_word = W_beyond
    /\ stop_words = {W_btw, W_myself}
    /\ ~is_stop(stop_flags, W_beyond)
    /\ is_stop(stop_flags, W_btw)

Agree(S, flags, w) == (w \in S) <=> is_stop(flags, w)

\* A cell has edited stop_word and raised nothing.
Edited == stop_word # <<>> /\ stop_err = "none"

\* C28 (as stated): the agreement holds for the edited word after both
\* steps and is violated after the set update alone.
C28_BrokenBetweenSteps ==
    Edited =>
        IF stop_pc = "idle"
        THEN Agree(stop_words, stop_flags, stop_word)
        ELSE ~Agree(stop_words, stop_flags, stop_word)

\* C28 (amended): the agreement holds for the edited word after both
\* steps; after the set update alone it is violated exactly when that
\* update changed the word's membership.
C28_BrokenWhenMembershipChanged ==
    /\ [](Edited /\ stop_pc = "idle"
              => Agree(stop_words, stop_flags, stop_word))
    /\ [][(AddSetStep \/ RemoveSetStep) =>
             (~Agree(stop_words', stop_flags', stop_word')
                  <=> ((stop_word' \in stop_words') # (stop_word' \in stop_words)))]_vars

C28_Witness ==
    /\ stop_pc = "set_flag"
    /\ stop_word = W_btw
    /\ W_btw \in stop_words
    /\ ~is_stop(stop_flags, W_btw)

Flagged == { i \in DOMAIN tokens : is_sent_start[i] }

====
